---- MODULE Spec2Model ----
(***************************************************************************)
(* Model of the real-time synthesizer engine of AFFOIM                     *)
(* (src/src/core/synthesizer.py, class Synthesizer) and of the calls the   *)
(* main window makes on it (src/src/gui/main_window.py).                   *)
(*                                                                         *)
(* Two threads: the UI thread (setters, start, stop, get_audio_chunk) and  *)
(* the audio thread of the output stream, which runs _audio_callback once  *)
(* per block while the stream is active.  The callback is cut into steps   *)
(* at the points where the other thread can interleave.                    *)
(*                                                                         *)
(* Units: frequencies in Hz, times in samples (seconds * sample_rate),     *)
(* bow parameters and levels in hundredths (the sliders' value / 100.0).   *)
(***************************************************************************)
EXTENDS Integers, Sequences, FiniteSets, TLC

\* ------------------------------------------------------------- constants
\* Synthesizer.__init__(sample_rate=44100)
SampleRate == 44100
\* sd.OutputStream(blocksize=1024): frames of every callback
Frames == 1024
\* queue.Queue(maxsize=10)
QueueMax == 10
\* self.frequency = 196.0
InitFrequency == 196
\* self.bow_velocity = 0.5 and self.bow_force = 0.5, in hundredths
InitBow == 50

\* ---------------------------------------------------------------- bounds
\* stream objects start() may create in one run
MaxStreams == 2
\* audio blocks the callback may begin in one run with setter calls
MaxBlocks == 3
\* audio blocks the callback may begin in one run without setter calls
MaxQueueBlocks == 12
\* setter calls the UI thread may make in one run
MaxSetterCalls == 1
\* notes of a melody drawn for the frequency-resolution check
MaxNotes == 2

VARIABLES
    is_running,       \* Synthesizer.is_running
    stream,           \* Synthesizer.stream: 0 is None, else a stream object id
    streams,          \* state of every stream object of the audio backend
    lock,             \* Synthesizer.lock: "none", or the thread holding it
    frequency,        \* Synthesizer.frequency (scalar or melody)
    excitation_type,  \* Synthesizer.excitation_type
    bow_velocity,     \* Synthesizer.bow_velocity
    bow_force,        \* Synthesizer.bow_force
    response_mode,    \* Synthesizer.response_mode
    noise_level,      \* Synthesizer.noise_level
    smoothing_level,  \* Synthesizer.smoothing_level
    modes,            \* Synthesizer.modes
    sample_count,     \* Synthesizer.sample_count
    audio_queue,      \* Synthesizer.audio_queue: blocks, oldest first
    cb,               \* the callback invocation in progress: position and locals
    ui,               \* the UI thread: position inside set_bow_params
    outdata,          \* id of the last block written to the output device
    escaped,          \* exception the callback let through to the backend
    closed_touched,   \* a stop()/close() was issued on an already closed stream
    crashed,          \* the process died in the backend
    noop_starts,      \* start() returned early because is_running was set
    chunk,            \* result of the last get_audio_chunk()
    dropped,          \* id of the last block the callback dropped (queue full)
    delivered,        \* highest block id get_audio_chunk() has returned
    setter_calls,     \* setter calls made so far
    raw_sampled_spl,  \* Synthesizer.raw_sampled_spl: "none" or "loaded"
    probe,            \* input and result of a stand-alone frequency resolution
    excitation_sources, \* Synthesizer.excitation_sources: the source objects
    source_probe,     \* a stand-alone excitation source and its last generate()
    physics,          \* the AcousticModel object of the main window
    window,           \* the main window: its canvases, controls and last handler
    spectrum          \* input and result of a stand-alone response computation

vars == <<is_running, stream, streams, lock, frequency, excitation_type,
          bow_velocity, bow_force, response_mode, noise_level, smoothing_level,
          modes, sample_count, audio_queue, cb, ui, outdata, escaped,
          closed_touched, crashed, noop_starts, chunk, dropped, delivered,
          setter_calls, raw_sampled_spl, probe, excitation_sources,
          source_probe, physics, window, spectrum>>


\* ------------------------------------------------------------ the values
\* self.frequency is a float, or a list of (freq, duration) notes
\* (isinstance(self.frequency, (list, tuple)) tells them apart).
Scalar(f) == [kind |-> "scalar", f |-> f, notes |-> <<>>]
Melody(ns) == [kind |-> "melody", f |-> 0, notes |-> ns]

\* A melody of two blocks: one block of 440 Hz, one block of 880 Hz.
ShortMelody == Melody(<< <<440, Frames>>, <<880, Frames>> >>)

\* Arguments the UI thread passes to set_frequency.
FreqInputs == {Scalar(0), Melody(<<>>), ShortMelody}

\* Arguments of set_excitation_type: keys of excitation_sources.
ExcitationInputs == {"sawtooth", "waveguide"}

\* Arguments of set_bow_params: (velocity, force), in hundredths.
BowInputs == {<<10, 20>>, <<20, 10>>}

\* Arguments of set_response_mode.
ResponseInputs == {"FLAT", "SAMPLED"}

\* Arguments of set_noise_level and set_smoothing_level, in hundredths.
LevelInputs == {30}

\* Mode lists predict() hands to update_modes: every call builds a new list.
\* A mode is named by a number whose tens digit is the list it was built in.
ListA == <<11, 12>>
ListB == <<21, 22>>
ModeInputs == {ListA, ListB}

\* The callback's locals when no invocation is in progress.
CbIdle ==
    [pc |-> "idle", f_base |-> 0, ext_type |-> "none", v_bow |-> 0, f_bow |-> 0,
     mode_choice |-> "none", noise_val |-> 0, smooth_val |-> 0,
     current_modes |-> <<>>, used_modes |-> <<>>, response |-> "none",
     blk |-> 0]

UiIdle == [pc |-> "idle", force |-> 0]

NoProbe == [melody |-> <<>>, n |-> 0, f |-> 0, done |-> FALSE]

\* The keys of self.excitation_sources, numbered in the order __init__
\* creates the objects.
SourceNames == {"sawtooth", "waveguide", "fdtd"}
InstanceOf(name) ==
    IF name = "sawtooth" THEN 1 ELSE IF name = "waveguide" THEN 2 ELSE 3

\* The three source objects as constructed: `blocks` counts the blocks a
\* source has integrated into its private state (oscillator phase and filter
\* history, delay lines, grid arrays); a freshly built object has none.
NewSources == [s \in SourceNames |-> [instance |-> InstanceOf(s), blocks |-> 0]]

\* No stand-alone source is under test.
NoSource == [kind |-> "none", phase |-> 0, f |-> 0, first |-> 0, last |-> 0,
             calls |-> 0]

\* A Point is <<x, y>>.  canvas.update_geometry and update_plate_map need the
\* fifteen control points of the outline template.
OutlinePoints == 15

\* Outlines the canvas can hold: geometry_default.json may give a template of
\* any length (here none, two points, fifteen); dragging moves the points.
TemplateOutline(half_w) ==
    [i \in 1 .. OutlinePoints |-> <<200 + (i % 4) * half_w, (i - 1) * 50>>]
ShortOutline(half_w) == << <<200, 0>>, <<200 + half_w, 800>> >>
OutlineInputs ==
    {<<>>, ShortOutline(50), ShortOutline(60), TemplateOutline(50),
     TemplateOutline(60)}

\* Arch profiles of the arching canvas: an empty template, or three points.
Arch(depth) == << <<182, 0>>, <<182 - depth, 400>>, <<182, 800>> >>
ArchInputs == {<<>>, Arch(40), Arch(20)}

\* (top density, top modulus, back density, back modulus) as the sliders emit
\* them; the first is the baseline of AcousticModel.__init__.
BaselineMaterial == <<400, 12, 600, 10>>
MaterialInputs == {BaselineMaterial, <<400, 24, 600, 10>>, <<850, 5, 300, 20>>}

\* self.arching_data = None, and the tuple update_arching stores.
NoArching == [set |-> FALSE, top |-> <<>>, back |-> <<>>]
ArchingPair(t_pts, b_pts) == [set |-> TRUE, top |-> t_pts, back |-> b_pts]

\* AcousticModel.__init__; spl.csv is the file the engine loads as well.
NewPhysics ==
    [geometry_data |-> <<>>, arching_data |-> NoArching,
     material |-> BaselineMaterial, sampled_spl |-> raw_sampled_spl,
     smoothing_level |-> 0]

\* What predict() gave its caller: a mode list, or the exception it raised.
Returned(ms) == [called |-> TRUE, raised |-> "none", modes |-> ms]
Raised(e) == [called |-> TRUE, raised |-> e, modes |-> <<>>]
NoPrediction == [called |-> FALSE, raised |-> "none", modes |-> <<>>]

\* A value of a curve at one frequency.  "linear" is the magnitude x;
\* "20log10" is 20 * log10 of the magnitude x, plus `add` dB; "dB" is `add` dB.
\* w > 0 says the Savitzky-Golay filter of window w was run over the curve.
NotComputed == [form |-> "none", x |-> 0, add |-> 0, w |-> 0]
Linear(x) == [form |-> "linear", x |-> x, add |-> 0, w |-> 0]
DbValue(d) == [form |-> "dB", x |-> 0, add |-> d, w |-> 0]

\* calculate_spectrum runs from f_min = 100 Hz to f_max = 10000 Hz: the two
\* ends of the plotted curves, in units of 100 Hz.
PlotFreqs == {1, 100}
NoPlot == [model |-> [F \in PlotFreqs |-> NotComputed],
           sampled |-> [F \in PlotFreqs |-> NotComputed]]

\* The main window with the canvases holding `outline`, `top` and `back`, and
\* no handler run yet.
WindowWith(outline, top, back) ==
    [outline |-> outline, top |-> top, back |-> back,
     material |-> BaselineMaterial, handled |-> "none", fault |-> "none",
     prediction |-> NoPrediction, plot |-> NoPlot]
NewWindow == WindowWith(<<>>, <<>>, <<>>)

\* No stand-alone response computation is under test.
NoSpectrum ==
    [modes |-> <<>>, mode |-> "none", F |-> 0, smoothing |-> 0, noise |-> 0,
     engine |-> NotComputed, physics |-> NotComputed]

StreamIds == 1 .. MaxStreams

\* Stream objects the backend has created so far.
Created == {s \in StreamIds : streams[s] # "unborn"}

\* Stream objects that hold the device: opened and not closed.
Open == {s \in StreamIds : streams[s] \in {"open", "active", "aborted"}}

\* ------------------------------------------------------------------ Init
\* Synthesizer.__init__; spl.csv is there (loaded) or not (none).
Construct ==
    /\ is_running = FALSE
    /\ stream = 0
    /\ streams = [s \in StreamIds |-> "unborn"]
    /\ lock = "none"
    /\ frequency = Scalar(InitFrequency)
    /\ excitation_type = "sawtooth"
    /\ bow_velocity = InitBow
    /\ bow_force = InitBow
    /\ response_mode = "MODEL"
    /\ noise_level = 0
    /\ smoothing_level = 0
    /\ modes = <<>>
    /\ sample_count = 0
    /\ audio_queue = <<>>
    /\ cb = CbIdle
    /\ ui = UiIdle
    /\ outdata = 0
    /\ escaped = "none"
    /\ closed_touched = FALSE
    /\ crashed = FALSE
    /\ noop_starts = FALSE
    /\ chunk = [called |-> FALSE, block |-> 0]
    /\ dropped = 0
    /\ delivered = 0
    /\ setter_calls = 0
    /\ raw_sampled_spl \in {"none", "loaded"}
    /\ excitation_sources = NewSources

\* Nothing outside the engine is under test.
EngineOnly ==
    /\ probe = NoProbe
    /\ source_probe = NoSource
    /\ physics = NewPhysics
    /\ window = NewWindow
    /\ spectrum = NoSpectrum

Init == Construct /\ EngineOnly

\* No thread of a process that died in the backend takes a step.
Alive == ~crashed

\* The UI thread is between two calls.
UiReady == Alive /\ ui.pc = "idle"

\* ------------------------------------------------------- start and stop
\* What the audio backend answers when start() opens and starts a stream.
Backend == {"ok", "open_error", "start_error"}

\* start() without its `if self.is_running: return`.
StartAlways(dev) ==
    /\ UiReady
    /\ Cardinality(Created) < MaxStreams
    /\ LET new == Cardinality(Created) + 1 IN
       CASE dev = "open_error" ->
              UNCHANGED <<is_running, stream, streams>>
         [] dev = "start_error" ->
              /\ stream' = new
              /\ streams' = [streams EXCEPT ![new] = "open"]
              /\ UNCHANGED is_running
         [] OTHER ->
              /\ stream' = new
              /\ streams' = [streams EXCEPT ![new] = "active"]
              /\ is_running' = TRUE
    /\ UNCHANGED <<noop_starts, lock, frequency, excitation_type, bow_velocity,
                   bow_force, response_mode, noise_level, smoothing_level, modes,
                   sample_count, audio_queue, cb, ui, outdata, escaped,
                   closed_touched, crashed, chunk, dropped, setter_calls, probe,
                   raw_sampled_spl, delivered,
                   excitation_sources, source_probe, physics, window,
                   spectrum>>

\* Synthesizer.start.  sd.OutputStream(...) raises when the device cannot be
\* opened (self.stream is then not assigned); stream.start() raises when the
\* opened stream cannot be started (is_running is then not set).
Start(dev) ==
    /\ UiReady
    /\ IF is_running
       THEN /\ noop_starts' = TRUE
            /\ UNCHANGED <<is_running, stream, streams>>
       ELSE /\ Cardinality(Created) < MaxStreams
            /\ LET new == Cardinality(Created) + 1 IN
               CASE dev = "open_error" ->
                      UNCHANGED <<is_running, stream, streams>>
                 [] dev = "start_error" ->
                      /\ stream' = new
                      /\ streams' = [streams EXCEPT ![new] = "open"]
                      /\ UNCHANGED is_running
                 [] OTHER ->
                      /\ stream' = new
                      /\ streams' = [streams EXCEPT ![new] = "active"]
                      /\ is_running' = TRUE
            /\ UNCHANGED noop_starts
    /\ UNCHANGED <<lock, frequency, excitation_type, bow_velocity, bow_force,
                   response_mode, noise_level, smoothing_level, modes,
                   sample_count, audio_queue, cb, ui, outdata, escaped,
                   closed_touched, crashed, chunk, dropped, setter_calls, probe,
                   raw_sampled_spl, delivered,
                   excitation_sources, source_probe, physics, window,
                   spectrum>>

\* Synthesizer.stop.  self.stream is never reset to None, so after a first
\* stop() the test `if self.stream:` still passes and stream.stop() and
\* stream.close() are issued on the closed stream: the backend reads a freed
\* stream, which either answers an error code (ignored by sounddevice) or
\* kills the process; `die` is that outcome.  stream.stop() on an active
\* stream returns once the callback in progress has returned.
Stop(die) ==
    /\ UiReady
    /\ IF stream # 0
       THEN /\ streams[stream] = "active" => cb.pc = "idle"
            /\ IF streams[stream] = "closed"
               THEN /\ closed_touched' = TRUE
                    /\ crashed' = die
                    /\ UNCHANGED streams
               ELSE /\ streams' = [streams EXCEPT ![stream] = "closed"]
                    /\ UNCHANGED <<closed_touched, crashed>>
       ELSE UNCHANGED <<streams, closed_touched, crashed>>
    /\ is_running' = IF crashed' THEN is_running ELSE FALSE
    /\ UNCHANGED <<stream, lock, frequency, excitation_type, bow_velocity,
                   bow_force, response_mode, noise_level, smoothing_level, modes,
                   sample_count, audio_queue, cb, ui, outdata, escaped,
                   noop_starts, chunk, dropped, setter_calls, probe,
                   raw_sampled_spl, delivered,
                   excitation_sources, source_probe, physics, window,
                   spectrum>>

\* --------------------------------------------------------------- setters
\* A lock nobody waits for.
NeverWaits(l) == TRUE

\* `with self.lock:` entered by a thread: it waits until the lock is free.
CanAcquire(l) == l = "none"

\* A setter may begin: the UI thread is between calls and gets the lock.
SetterReady ==
    /\ UiReady
    /\ CanAcquire(lock)
    /\ setter_calls < MaxSetterCalls

\* update_modes writing into the list the engine already holds, interrupted
\* after the first element.
WrittenInPlace(old, new) ==
    IF old = <<>> THEN <<new[1]>> ELSE <<new[1]>> \o Tail(old)

\* The list update_modes stores: the argument itself (self.modes = modes).
StoredModes(old, new) == new

\* Synthesizer.update_modes
UpdateModes(ms) ==
    /\ SetterReady
    /\ modes' = StoredModes(modes, ms)
    /\ setter_calls' = setter_calls + 1
    /\ UNCHANGED <<is_running, stream, streams, lock, frequency, excitation_type,
                   bow_velocity, bow_force, response_mode, noise_level,
                   smoothing_level, sample_count, audio_queue, cb, ui, outdata,
                   escaped, closed_touched, crashed, noop_starts, chunk, dropped,
                   probe, raw_sampled_spl,
                   delivered,
                   excitation_sources, source_probe, physics, window,
                   spectrum>>

\* The value set_frequency stores: the argument, whatever it is.
StoredFrequency(old, freq) == freq

\* Synthesizer.set_frequency
SetFrequency(freq) ==
    /\ SetterReady
    /\ frequency' = StoredFrequency(frequency, freq)
    /\ setter_calls' = setter_calls + 1
    /\ UNCHANGED <<is_running, stream, streams, lock, excitation_type,
                   bow_velocity, bow_force, response_mode, noise_level,
                   smoothing_level, modes, sample_count, audio_queue, cb, ui,
                   outdata, escaped, closed_touched, crashed, noop_starts, chunk,
                   dropped, probe, raw_sampled_spl,
                   delivered,
                   excitation_sources, source_probe, physics, window,
                   spectrum>>

\* Synthesizer.set_response_mode
SetResponseMode(mode) ==
    /\ SetterReady
    /\ response_mode' = mode
    /\ setter_calls' = setter_calls + 1
    /\ UNCHANGED <<is_running, stream, streams, lock, frequency, excitation_type,
                   bow_velocity, bow_force, noise_level, smoothing_level, modes,
                   sample_count, audio_queue, cb, ui, outdata, escaped,
                   closed_touched, crashed, noop_starts, chunk, dropped, probe, raw_sampled_spl,
                   delivered,
                   excitation_sources, source_probe, physics, window,
                   spectrum>>

\* Synthesizer.set_noise_level
SetNoiseLevel(level) ==
    /\ SetterReady
    /\ noise_level' = level
    /\ setter_calls' = setter_calls + 1
    /\ UNCHANGED <<is_running, stream, streams, lock, frequency, excitation_type,
                   bow_velocity, bow_force, response_mode, smoothing_level, modes,
                   sample_count, audio_queue, cb, ui, outdata, escaped,
                   closed_touched, crashed, noop_starts, chunk, dropped, probe, raw_sampled_spl,
                   delivered,
                   excitation_sources, source_probe, physics, window,
                   spectrum>>

\* Synthesizer.set_smoothing_level
SetSmoothingLevel(level) ==
    /\ SetterReady
    /\ smoothing_level' = level
    /\ setter_calls' = setter_calls + 1
    /\ UNCHANGED <<is_running, stream, streams, lock, frequency, excitation_type,
                   bow_velocity, bow_force, response_mode, noise_level, modes,
                   sample_count, audio_queue, cb, ui, outdata, escaped,
                   closed_touched, crashed, noop_starts, chunk, dropped, probe, raw_sampled_spl,
                   delivered,
                   excitation_sources, source_probe, physics, window,
                   spectrum>>

\* A switch that builds the three sources anew.
SourcesRebuilt(sources, ext) == NewSources

\* self.excitation_sources after set_excitation_type(ext): the setter assigns
\* self.excitation_type and nothing else.
SourcesAfterSwitch(sources, ext) == sources

\* Synthesizer.set_excitation_type
SetExcitationType(ext) ==
    /\ SetterReady
    /\ excitation_type' = ext
    /\ excitation_sources' = SourcesAfterSwitch(excitation_sources, ext)
    /\ setter_calls' = setter_calls + 1
    /\ UNCHANGED <<is_running, stream, streams, lock, frequency, bow_velocity,
                   bow_force, response_mode, noise_level, smoothing_level, modes,
                   sample_count, audio_queue, cb, ui, outdata, escaped,
                   closed_touched, crashed, noop_starts, chunk, dropped, probe, raw_sampled_spl,
                   delivered,
                   source_probe, physics, window,
                   spectrum>>

\* Synthesizer.set_bow_params, first half: take the lock, write bow_velocity.
\* The audio thread can run between the two assignments.
SetBowVelocity(velocity, force) ==
    /\ SetterReady
    /\ lock' = "ui"
    /\ bow_velocity' = velocity
    /\ ui' = [pc |-> "bow_force", force |-> force]
    /\ setter_calls' = setter_calls + 1
    /\ UNCHANGED <<is_running, stream, streams, frequency, excitation_type,
                   bow_force, response_mode, noise_level, smoothing_level, modes,
                   sample_count, audio_queue, cb, outdata, escaped,
                   closed_touched, crashed, noop_starts, chunk, dropped, probe, raw_sampled_spl,
                   delivered,
                   excitation_sources, source_probe, physics, window,
                   spectrum>>

\* A with block that keeps the lock when it is left.
LockKeptOnExit(l) == l

\* The lock after `with self.lock:` is left, at its end or by an exception:
\* the context manager releases it.
LockAfterWith(l) == "none"

\* Synthesizer.set_bow_params, second half: write bow_force, leave the lock.
SetBowForce ==
    /\ Alive
    /\ ui.pc = "bow_force"
    /\ bow_force' = ui.force
    /\ lock' = LockAfterWith(lock)
    /\ ui' = UiIdle
    /\ UNCHANGED <<is_running, stream, streams, frequency, excitation_type,
                   bow_velocity, response_mode, noise_level, smoothing_level,
                   modes, sample_count, audio_queue, cb, outdata, escaped,
                   closed_touched, crashed, noop_starts, chunk, dropped,
                   setter_calls, probe,
                   raw_sampled_spl, delivered,
                   excitation_sources, source_probe, physics, window,
                   spectrum>>

\* ---------------------------------------------------- the audio callback
\* sum(n[1] for n in self.frequency)
RECURSIVE TotalDuration(_)
TotalDuration(notes) ==
    IF notes = <<>> THEN 0 ELSE notes[1][2] + TotalDuration(Tail(notes))

\* The loop without `elapsed += dur`.
RECURSIVE ScanNotesNoAdvance(_, _, _, _, _)
ScanNotesNoAdvance(notes, i, elapsed, current_time, f_base) ==
    IF i > Len(notes) THEN f_base
    ELSE IF elapsed <= current_time /\ current_time < elapsed + notes[i][2]
         THEN notes[i][1]
         ELSE ScanNotesNoAdvance(notes, i + 1, elapsed, current_time, f_base)

\* The loop `for freq, dur in self.frequency` from note i on, `elapsed` being
\* the durations summed so far: the first note with
\* elapsed <= current_time < elapsed + dur, else the value f_base already has.
RECURSIVE ScanNotes(_, _, _, _, _)
ScanNotes(notes, i, elapsed, current_time, f_base) ==
    IF i > Len(notes) THEN f_base
    ELSE IF elapsed <= current_time /\ current_time < elapsed + notes[i][2]
         THEN notes[i][1]
         ELSE ScanNotes(notes, i + 1, elapsed + notes[i][2], current_time, f_base)

\* The `%` of current_time raises ZeroDivisionError when the durations sum to
\* 0; an empty melody sums to 0.
ResolveRaises(freq) ==
    freq.kind = "melody" /\ TotalDuration(freq.notes) = 0

\* f_base of the callback, for a frequency on which ResolveRaises is false.
\* current_time = (sample_count / sample_rate) % total_duration, in samples:
\* sample_count % (total_duration * sample_rate).
ResolveFrequency(freq, count) ==
    IF freq.kind = "melody"
    THEN LET total_duration == TotalDuration(freq.notes)
             current_time == count % total_duration
         IN ScanNotes(freq.notes, 1, 0, current_time, freq.notes[1][1])
    ELSE freq.f

\* WaveguideSource.generate: int(sample_rate / (2 * frequency)) raises
\* OverflowError when frequency is 0 (the quotient of numpy floats is inf).
\* The other two sources compute with any frequency.
GenerateRaises(ext_type, f) == ext_type = "waveguide" /\ f = 0

\* self.excitation_sources.get(ext_type, self.excitation_sources["sawtooth"])
SelectedSource(ext_type) ==
    IF ext_type \in SourceNames THEN ext_type ELSE "sawtooth"

\* The source objects after source_gen.generate(...) returned: generate is
\* called on the selected source and on no other.
SourcesAfterGenerate(sources, ext_type) ==
    [sources EXCEPT ![SelectedSource(ext_type)].blocks = @ + 1]

\* The branch of the filter construction the callback takes.
ResponseBranch(mode_choice, sampled) ==
    IF mode_choice = "FLAT" THEN "FLAT"
    ELSE IF mode_choice = "SAMPLED" /\ sampled # "none" THEN "SAMPLED"
    ELSE "MODAL"

\* The stream whose audio thread runs the callback.
ActiveStream == CHOOSE s \in StreamIds : streams[s] = "active"

\* The callback raised: `stage` names where.  Nothing in _audio_callback
\* catches it, so it reaches the backend, which ends the stream (sounddevice
\* declares its callback with error=paAbort); outdata was not written.
Raise(stage) ==
    /\ escaped' = stage
    /\ streams' = [streams EXCEPT ![ActiveStream] = "aborted"]
    /\ cb' = CbIdle

\* _audio_callback is entered and enters `with self.lock:`.  At most
\* max_blocks blocks are begun.
CbAcquire(max_blocks) ==
    /\ Alive
    /\ \E s \in StreamIds : streams[s] = "active"
    /\ cb.pc = "idle"
    /\ sample_count < max_blocks * Frames
    /\ CanAcquire(lock)
    /\ lock' = "audio"
    /\ cb' = [CbIdle EXCEPT !.pc = "resolve"]
    /\ UNCHANGED <<is_running, stream, streams, frequency, excitation_type,
                   bow_velocity, bow_force, response_mode, noise_level,
                   smoothing_level, modes, sample_count, audio_queue, ui, outdata,
                   escaped, closed_touched, crashed, noop_starts, chunk, dropped,
                   setter_calls, probe,
                   raw_sampled_spl, delivered,
                   excitation_sources, source_probe, physics, window,
                   spectrum>>

\* Inside the lock: melody or scalar resolution, then the vibrato arrays
\* (vibrato_depth is 0.0, so f_current[0] = f_base).  An exception leaves the
\* with block, which releases the lock.
CbResolve ==
    /\ Alive
    /\ cb.pc = "resolve"
    /\ IF ResolveRaises(frequency)
       THEN /\ Raise("resolve")
            /\ lock' = LockAfterWith(lock)
       ELSE /\ cb' = [cb EXCEPT !.f_base = ResolveFrequency(frequency, sample_count),
                                !.pc = "copy"]
            /\ UNCHANGED <<lock, escaped, streams>>
    /\ UNCHANGED <<is_running, stream, frequency, excitation_type, bow_velocity,
                   bow_force, response_mode, noise_level, smoothing_level, modes,
                   sample_count, audio_queue, ui, outdata, closed_touched,
                   crashed, noop_starts, chunk, dropped, setter_calls, probe,
                   raw_sampled_spl,
                   delivered,
                   excitation_sources, source_probe, physics, window,
                   spectrum>>

\* Inside the lock: the configuration fields and list(self.modes) are copied
\* to locals; the with block ends and releases the lock.
CbCopy ==
    /\ Alive
    /\ cb.pc = "copy"
    /\ cb' = [cb EXCEPT !.ext_type = excitation_type,
                        !.v_bow = bow_velocity,
                        !.f_bow = bow_force,
                        !.mode_choice = response_mode,
                        !.noise_val = noise_level,
                        !.smooth_val = smoothing_level,
                        !.current_modes = modes,
                        !.pc = "generate"]
    /\ lock' = LockAfterWith(lock)
    /\ UNCHANGED <<is_running, stream, streams, frequency, excitation_type,
                   bow_velocity, bow_force, response_mode, noise_level,
                   smoothing_level, modes, sample_count, audio_queue, ui, outdata,
                   escaped, closed_touched, crashed, noop_starts, chunk, dropped,
                   setter_calls, probe,
                   raw_sampled_spl, delivered,
                   excitation_sources, source_probe, physics, window,
                   spectrum>>

\* A sample counter that restarts with every block.
CountRestarted(count, frames) == frames

\* self.sample_count += frames
CountAfterBlock(count, frames) == count + frames

\* source_gen.generate(...) of the selected source, then
\* self.sample_count += frames.  The block is named by the number of blocks
\* generated so far.
CbGenerate ==
    /\ Alive
    /\ cb.pc = "generate"
    /\ IF GenerateRaises(cb.ext_type, cb.f_base)
       THEN /\ Raise("generate")
            /\ UNCHANGED <<sample_count, excitation_sources>>
       ELSE /\ excitation_sources' =
                   SourcesAfterGenerate(excitation_sources, cb.ext_type)
            /\ sample_count' = CountAfterBlock(sample_count, Frames)
            /\ cb' = [cb EXCEPT !.blk = sample_count' \div Frames, !.pc = "filter"]
            /\ UNCHANGED <<escaped, streams>>
    /\ UNCHANGED <<is_running, stream, lock, frequency, excitation_type,
                   bow_velocity, bow_force, response_mode, noise_level,
                   smoothing_level, modes, audio_queue, ui, outdata,
                   closed_touched, crashed, noop_starts, chunk, dropped,
                   setter_calls, probe,
                   raw_sampled_spl, delivered,
                   source_probe, physics, window,
                   spectrum>>

\* FFT, filter response (the modal branch loops over current_modes), inverse
\* FFT, high-pass, normalization, tanh, and outdata[:] = output_signal.
CbFilter ==
    /\ Alive
    /\ cb.pc = "filter"
    /\ cb' = [cb EXCEPT !.response =
                            ResponseBranch(cb.mode_choice, raw_sampled_spl),
                        !.used_modes =
                            IF ResponseBranch(cb.mode_choice, raw_sampled_spl) = "MODAL"
                            THEN cb.current_modes ELSE <<>>,
                        !.pc = "publish"]
    /\ outdata' = cb.blk
    /\ UNCHANGED <<is_running, stream, streams, lock, frequency, excitation_type,
                   bow_velocity, bow_force, response_mode, noise_level,
                   smoothing_level, modes, sample_count, audio_queue, ui, escaped,
                   closed_touched, crashed, noop_starts, chunk, dropped,
                   setter_calls, probe,
                   raw_sampled_spl, delivered,
                   excitation_sources, source_probe, physics, window,
                   spectrum>>

\* A put that appends whatever the queue holds.
QueueAfterPutUnbounded(q, block) == Append(q, block)

\* The queue after put_nowait(block): queue.Full is caught and passed.
QueueAfterPut(q, block) == IF Len(q) < QueueMax THEN Append(q, block) ELSE q

\* self.audio_queue.put_nowait(output_signal.copy()), and the callback returns.
CbPublish ==
    /\ Alive
    /\ cb.pc = "publish"
    /\ audio_queue' = QueueAfterPut(audio_queue, cb.blk)
    /\ dropped' = IF audio_queue' = audio_queue THEN cb.blk ELSE dropped
    /\ cb' = CbIdle
    /\ UNCHANGED <<is_running, stream, streams, lock, frequency, excitation_type,
                   bow_velocity, bow_force, response_mode, noise_level,
                   smoothing_level, modes, sample_count, ui, outdata, escaped,
                   closed_touched, crashed, noop_starts, chunk, setter_calls,
                   probe, raw_sampled_spl,
                   delivered,
                   excitation_sources, source_probe, physics, window,
                   spectrum>>

\* ------------------------------------------------------- get_audio_chunk
\* A get that takes the newest block.
ChunkGotNewest(q) == q[Len(q)]

\* The block get_nowait() returns from a non-empty queue, and what it leaves.
ChunkGot(q) == Head(q)
QueueAfterGet(q) == Tail(q)

\* Synthesizer.get_audio_chunk: block 0 stands for None (queue.Empty caught).
GetAudioChunk ==
    /\ UiReady
    /\ IF audio_queue = <<>>
       THEN /\ chunk' = [called |-> TRUE, block |-> 0]
            /\ UNCHANGED <<audio_queue, delivered>>
       ELSE /\ chunk' = [called |-> TRUE, block |-> ChunkGot(audio_queue)]
            /\ audio_queue' = QueueAfterGet(audio_queue)
            /\ delivered' = IF chunk'.block > delivered THEN chunk'.block
                             ELSE delivered
    /\ UNCHANGED <<is_running, stream, streams, lock, frequency, excitation_type,
                   bow_velocity, bow_force, response_mode, noise_level,
                   smoothing_level, modes, sample_count, cb, ui, outdata, escaped,
                   closed_touched, crashed, noop_starts, dropped, setter_calls,
                   probe, raw_sampled_spl,
                   excitation_sources, source_probe, physics, window,
                   spectrum>>

\* ------------------------------------------------------ the specification
Next ==
    \/ \E dev \in Backend : Start(dev)
    \/ \E die \in BOOLEAN : Stop(die)
    \/ \E ms \in ModeInputs : UpdateModes(ms)
    \/ \E freq \in FreqInputs : SetFrequency(freq)
    \/ \E mode \in ResponseInputs : SetResponseMode(mode)
    \/ \E level \in LevelInputs : SetNoiseLevel(level)
    \/ \E level \in LevelInputs : SetSmoothingLevel(level)
    \/ \E ext \in ExcitationInputs : SetExcitationType(ext)
    \/ \E bow \in BowInputs : SetBowVelocity(bow[1], bow[2])
    \/ SetBowForce
    \/ CbAcquire(MaxBlocks)
    \/ CbResolve
    \/ CbCopy
    \/ CbGenerate
    \/ CbFilter
    \/ CbPublish
    \/ GetAudioChunk

Spec == Init /\ [][Next]_vars

\* A long run of the engine with the configuration it was constructed with:
\* the UI thread starts, stops and polls the queue, and calls no setter.
QueueNext ==
    \/ \E dev \in Backend : Start(dev)
    \/ \E die \in BOOLEAN : Stop(die)
    \/ CbAcquire(MaxQueueBlocks)
    \/ CbResolve
    \/ CbCopy
    \/ CbGenerate
    \/ CbFilter
    \/ CbPublish
    \/ GetAudioChunk

QueueSpec == Init /\ [][QueueNext]_vars

\* The engine with its two threads scheduled: a thread inside a with block
\* goes on to its end, and the audio thread of an active stream goes on
\* through a callback it has entered.
Scheduled ==
    /\ WF_vars(SetBowForce)
    /\ WF_vars(CbResolve)
    /\ WF_vars(CbCopy)
    /\ WF_vars(CbGenerate)
    /\ WF_vars(CbFilter)
    /\ WF_vars(CbPublish)

\* blocks the first session has left in the queue when stop() returns
CarriedBlocks == 2

\* The engine stopped after a first session: the callback of stream 1 has run
\* CarriedBlocks times with the constructed configuration, the consumer has
\* taken nothing, and stop() has closed the stream.
RestartInit ==
    /\ is_running = FALSE
    /\ stream = 1
    /\ streams = [s \in StreamIds |-> IF s = 1 THEN "closed" ELSE "unborn"]
    /\ lock = "none"
    /\ frequency = Scalar(InitFrequency)
    /\ excitation_type = "sawtooth"
    /\ bow_velocity = InitBow
    /\ bow_force = InitBow
    /\ response_mode = "MODEL"
    /\ noise_level = 0
    /\ smoothing_level = 0
    /\ modes = <<>>
    /\ sample_count = CarriedBlocks * Frames
    /\ audio_queue = [i \in 1 .. CarriedBlocks |-> i]
    /\ cb = CbIdle
    /\ ui = UiIdle
    /\ outdata = CarriedBlocks
    /\ escaped = "none"
    /\ closed_touched = FALSE
    /\ crashed = FALSE
    /\ noop_starts = FALSE
    /\ chunk = [called |-> FALSE, block |-> 0]
    /\ dropped = 0
    /\ delivered = 0
    /\ setter_calls = 0
    /\ raw_sampled_spl \in {"none", "loaded"}
    /\ excitation_sources =
           [NewSources EXCEPT !["sawtooth"].blocks = CarriedBlocks]
    /\ EngineOnly

\* What the engine does from there: the run of QueueSpec, resumed.
RestartSpec == RestartInit /\ [][QueueNext]_vars

\* The users of the lock: start and stop, the setter that can make the
\* callback raise inside its with block (set_frequency), the setter that
\* holds the lock over two writes (set_bow_params), and the callback.
LockNext ==
    \/ \E dev \in Backend : Start(dev)
    \/ \E die \in BOOLEAN : Stop(die)
    \/ \E freq \in FreqInputs : SetFrequency(freq)
    \/ \E bow \in BowInputs : SetBowVelocity(bow[1], bow[2])
    \/ SetBowForce
    \/ CbAcquire(MaxBlocks)
    \/ CbResolve
    \/ CbCopy
    \/ CbGenerate
    \/ CbFilter
    \/ CbPublish

FairSpec == Init /\ [][LockNext]_vars /\ Scheduled


\* ------------------------------------- frequency resolution on its own
\* Durations of 0.25 s and 0.5 s, in samples.
Quarter == SampleRate \div 4
ProbeNotes == {<<f, d>> : f \in {440, 880}, d \in {Quarter, 2 * Quarter}}

RECURSIVE SeqsUpTo(_, _)
SeqsUpTo(S, n) ==
    IF n = 0 THEN {<<>>}
    ELSE LET shorter == SeqsUpTo(S, n - 1)
         IN shorter \cup {Append(q, x) : q \in shorter, x \in S}

\* Melodies with positive durations, of 1 .. MaxNotes notes.
ProbeMelodies == SeqsUpTo(ProbeNotes, MaxNotes) \ {<<>>}

\* Values of sample_count: quarter seconds up to MaxQuarters, on the boundary,
\* one sample before the next one, and one block after.
MaxQuarters == 5
ProbeCounts == {q * Quarter + o : q \in 0 .. MaxQuarters, o \in {0, Quarter - 1, Frames}}

ProbeInit ==
    /\ Construct
    /\ source_probe = NoSource
    /\ physics = NewPhysics
    /\ window = NewWindow
    /\ spectrum = NoSpectrum
    /\ probe \in {[melody |-> m, n |-> n, f |-> 0, done |-> FALSE] :
                     m \in ProbeMelodies, n \in ProbeCounts}

\* The melody branch of the callback applied to probe.melody at sample count
\* probe.n.
ProbeResolve ==
    /\ Alive
    /\ ~probe.done
    /\ ~ResolveRaises(Melody(probe.melody))
    /\ probe' = [probe EXCEPT !.f = ResolveFrequency(Melody(probe.melody), probe.n),
                              !.done = TRUE]
    /\ UNCHANGED <<is_running, stream, streams, lock, frequency, excitation_type,
                   bow_velocity, bow_force, response_mode, noise_level,
                   smoothing_level, modes, sample_count, audio_queue, cb, ui,
                   outdata, escaped, closed_touched, crashed, noop_starts, chunk,
                   dropped, delivered, setter_calls, raw_sampled_spl,
                   excitation_sources, source_probe, physics, window,
                   spectrum>>

ProbeNext == ProbeResolve

MelodySpec == ProbeInit /\ [][ProbeNext]_vars

\* ------------------------------------------- one excitation source alone
\* generate() calls made on the source under test.
MaxSourceCalls == 4

\* The sources with a periodic component that generate() computes from a
\* phase, and the frequencies handed to them: the open strings of the
\* controls, in whole Hz.
ProbeSources == {"sawtooth", "fdtd"}
SourceFreqs == {196, 440, 660}

\* Phases are counted in 1/SampleRate of a cycle, so a frequency of f Hz
\* advances the phase by f per sample.
\* SawtoothSource.generate: sample i has phase self.phase + i * increment;
\* self.phase becomes the phase after the last sample.
SawtoothGenerate(src, f) ==
    LET last_phase == (src.phase + (Frames - 1) * f) % SampleRate
    IN [src EXCEPT !.first = src.phase,
                   !.last = last_phase,
                   !.phase = (last_phase + f) % SampleRate,
                   !.f = f,
                   !.calls = @ + 1]

\* FDTDSource.generate: the driving force at sample t of the call is
\* sin(2 pi frequency t dt) with t counted from 0 in every call; the object
\* keeps the grids u and u_prev and no phase.
FDTDGenerate(src, f) ==
    [src EXCEPT !.first = 0,
                !.last = ((Frames - 1) * f) % SampleRate,
                !.f = f,
                !.calls = @ + 1]

SourceInit ==
    /\ Construct
    /\ probe = NoProbe
    /\ physics = NewPhysics
    /\ window = NewWindow
    /\ spectrum = NoSpectrum
    /\ source_probe \in {[NoSource EXCEPT !.kind = k] : k \in ProbeSources}

\* One generate(frames, f, ...) call on the source under test.
SourceGenerate(f) ==
    /\ Alive
    /\ source_probe.calls < MaxSourceCalls
    /\ source_probe' = IF source_probe.kind = "sawtooth"
                       THEN SawtoothGenerate(source_probe, f)
                       ELSE FDTDGenerate(source_probe, f)
    /\ UNCHANGED <<is_running, stream, streams, lock, frequency, excitation_type,
                   bow_velocity, bow_force, response_mode, noise_level,
                   smoothing_level, modes, sample_count, audio_queue, cb, ui,
                   outdata, escaped, closed_touched, crashed, noop_starts, chunk,
                   dropped, delivered, setter_calls, raw_sampled_spl, probe,
                   excitation_sources, physics, window, spectrum>>

SourceNext == \E f \in SourceFreqs : SourceGenerate(f)

SourceSpec == SourceInit /\ [][SourceNext]_vars

\* --------------------------------- the excitation sources, sample by sample
\* Signal values are counted in millionths, the block a generate() call
\* returns in thousandths, bow velocity and bow force in hundredths,
\* frequencies in whole Hz.  Products are rounded toward zero.

\* Samples of one generate(frames, ...) call on a source under test.
ProbeFrames == 8

Max(a, b) == IF a > b THEN a ELSE b
Min(a, b) == IF a < b THEN a ELSE b
Magnitude(x) == IF x < 0 THEN 0 - x ELSE x

\* x * k / 1000 for k in thousandths, without forming x * k.
MulThousandths(x, k) ==
    LET m == Magnitude(x)
        p == (m \div 1000) * k + ((m % 1000) * k) \div 1000
    IN IF x >= 0 THEN p ELSE 0 - p

\* p / sr in millionths, for 0 <= p < sr.
ScaleMillion(p, sr) ==
    ((p * 1000) \div sr) * 1000 + ((((p * 1000) % sr) * 1000) \div sr)

\* The largest magnitude an array holds between the indices lo and hi.
RECURSIVE PeakIn(_, _, _)
PeakIn(a, lo, hi) ==
    IF lo = hi THEN Magnitude(a[lo])
    ELSE LET mid == (lo + hi) \div 2
         IN Max(PeakIn(a, lo, mid), PeakIn(a, mid + 1, hi))

\* SawtoothSource.__init__
NewSawtooth == [phase |-> 0, dc_x_prev |-> 0, dc_y_prev |-> 0]

\* raw_saw = 2.0 * (current_phases - 0.5) at sample i of the call; the phase
\* is counted in 1/sr of a cycle.
RawSaw(phase, i, f, sr) == 2 * ScaleMillion((phase + i * f) % sr, sr) - 1000000

\* np.convolve(raw_saw, np.ones(4)/4, mode='same') at sample i: the mean of
\* raw_saw[i-2 .. i+1], samples outside the block counting as 0.
Boxcar(phase, i, frames, f, sr) ==
    LET at(j) == IF j < 0 \/ j >= frames THEN 0 ELSE RawSaw(phase, j, f, sr)
        sum == at(i - 2) + at(i - 1) + at(i) + at(i + 1)
    IN IF sum >= 0 THEN sum \div 4 ELSE 0 - ((0 - sum) \div 4)

\* The DC-blocking loop from sample i on:
\* output[i] = source[i] - dc_x_prev + 0.995 * dc_y_prev; `out` is the
\* largest magnitude of output * bow_velocity so far.
RECURSIVE SawtoothLoop(_, _, _, _, _, _, _)
SawtoothLoop(s, out, i, frames, f, sr, v_bow) ==
    IF i = frames THEN [s |-> s, out |-> out]
    ELSE LET source == Boxcar(s.phase, i, frames, f, sr)
             output == source - s.dc_x_prev + MulThousandths(s.dc_y_prev, 995)
             scaled == Magnitude(MulThousandths(output, v_bow * 10)) \div 1000
         IN SawtoothLoop([s EXCEPT !.dc_x_prev = source, !.dc_y_prev = output],
                         Max(out, scaled), i + 1, frames, f, sr, v_bow)

\* SawtoothSource.generate: the loop, then self.phase is the phase after the
\* last sample.  bow_force is not read.
SawtoothBlock(s, frames, f, sr, v_bow, f_bow) ==
    LET done == SawtoothLoop(s, 0, 0, frames, f, sr, v_bow)
    IN [done EXCEPT !.s.phase = (s.phase + frames * f) % sr]

\* WaveguideSource(size=2048): the two delay lines.
WaveguideSize == 2048
NewWaveguide ==
    [upper |-> [i \in 0 .. WaveguideSize - 1 |-> 0],
     lower |-> [i \in 0 .. WaveguideSize - 1 |-> 0]]

\* A length taken as computed, without the clamp.
DelayUnclamped(f, sr, size) == sr \div (2 * f)

\* L = int(sample_rate / (2 * frequency)); L = max(10, min(L, len(upper) - 1))
DelayLength(f, sr, size) == Max(10, Min(sr \div (2 * f), size - 1))

\* exp(-x) in thousandths for x = h hundredths: 1 / (1 + x + x^2/2 + x^3/6),
\* within a twentieth of exp(-x) up to x = 1 and below it after; 0 from
\* x = 10 on.
ExpNeg(h) ==
    IF h > 1000 THEN 0
    ELSE 1000000000 \div (1000000 + 10000 * h + 50 * h * h + (h * h * h) \div 6)

\* friction = v_rel * np.exp(-1.0 * (v_rel / self.v_c)**2) + self.mu_d, with
\* v_c = 0.1 and mu_d = 0.01.
Friction(v_rel) ==
    LET q == IF v_rel >= 0 THEN v_rel \div 1000 ELSE 0 - ((0 - v_rel) \div 1000)
        h == (q * q) \div 100
    IN q * ExpNeg(h) + 10000

\* A bow that presses with the same force whatever bow_force is.
ForceUnscaled(friction, f_bow) == MulThousandths(friction, 50)

\* force = friction * bow_force * 0.05
BowForceOf(friction, f_bow) ==
    MulThousandths(MulThousandths(friction, f_bow * 10), 50)

\* One pass of the loop body of WaveguideSource.generate: the two shifts, the
\* two reflections, the friction force at bow_pos = L // 4.
WaveguideStep(w, L, v_bow, f_bow) ==
    LET up1 == [i \in DOMAIN w.upper |->
                   IF 1 <= i /\ i < L THEN w.upper[i - 1] ELSE w.upper[i]]
        lo1 == [i \in DOMAIN w.lower |->
                   IF i < L - 1 THEN w.lower[i + 1] ELSE w.lower[i]]
        up2 == [up1 EXCEPT ![0] = 0 - lo1[0]]
        lo2 == [lo1 EXCEPT ![L - 1] = 0 - up2[L - 1]]
        bow_pos == L \div 4
        v_string == up2[bow_pos] + lo2[bow_pos]
        v_rel == v_string - v_bow * 2000
        force == BowForceOf(Friction(v_rel), f_bow)
    IN [upper |-> [up2 EXCEPT ![bow_pos] = @ - force],
        lower |-> [lo2 EXCEPT ![bow_pos] = @ - force]]

\* The loop over the samples; output[t] = self.lower[L-1], returned times 50.
RECURSIVE WaveguideLoop(_, _, _, _, _, _)
WaveguideLoop(w, out, n, L, v_bow, f_bow) ==
    IF n = 0 THEN [s |-> w, out |-> out]
    ELSE LET next == WaveguideStep(w, L, v_bow, f_bow)
         IN WaveguideLoop(next, Max(out, Magnitude(next.lower[L - 1]) \div 20),
                          n - 1, L, v_bow, f_bow)

\* WaveguideSource.generate
WaveguideBlock(w, frames, f, sr, v_bow, f_bow) ==
    WaveguideLoop(w, 0, frames, DelayLength(f, sr, WaveguideSize), v_bow, f_bow)

\* FDTDSource(nodes=200): the grids u and u_prev, numbered from 1.
GridNodes == 200
NewGrid == [u |-> [i \in 1 .. GridNodes |-> 0],
            u_prev |-> [i \in 1 .. GridNodes |-> 0]]

\* r2 = (c * dt / dx)**2 with c = 2 * frequency, in thousandths;
\* `if r2 > 1.0: r2 = 0.99`.
Courant(f, nodes, sr) ==
    LET r == (2 * f * nodes * 1000) \div sr
        r2 == (r * r) \div 1000
    IN IF r2 > 1000 THEN 990 ELSE r2

\* np.sin of p / sr cycles, in thousandths, by Bhaskara's quotient
\* 16 x (h - x) / (5 h^2 - 4 x (h - x)) on a half cycle of h steps (within
\* two thousandths of the sine).
Sin(p, sr) ==
    LET half == sr \div 2
        x == (IF p < half THEN p ELSE p - half) \div 21
        h == half \div 21
        y == x * (h - x)
        s == (16 * y * 100) \div ((5 * h * h - 4 * y) \div 10)
    IN IF p < half THEN s ELSE 0 - s

\* u_next *= self.damping, with damping = 0.9995.
Damped(x) ==
    LET m == Magnitude(x)
        d == m - (m + 1999) \div 2000
    IN IF x >= 0 THEN d ELSE 0 - d

\* One pass of the loop body of FDTDSource.generate at sample t of the call:
\* the wave equation on the inner nodes, the drive at bow_idx = nodes // 4,
\* the damping, the fixed ends.
FDTDStep(g, t, f, sr, v_bow, f_bow) ==
    LET nodes == Len(g.u)
        r2 == Courant(f, nodes, sr)
        drive_strength == (v_bow * f_bow * 100) \div 2
        drive == MulThousandths(drive_strength, Sin((f * t) % sr, sr))
        bow_idx == nodes \div 4
        wave(i) == 2 * g.u[i] - g.u_prev[i]
                     + MulThousandths(g.u[i + 1] - 2 * g.u[i] + g.u[i - 1], r2)
        u_next == [i \in 1 .. nodes |->
                      IF i = 1 \/ i = nodes THEN 0
                      ELSE Damped(wave(i) + (IF i = bow_idx + 1 THEN drive ELSE 0))]
    IN [u |-> u_next, u_prev |-> g.u]

\* The loop over the samples; output[t] = self.u[-2], returned times 10000.
RECURSIVE FDTDLoop(_, _, _, _, _, _, _, _)
FDTDLoop(g, out, t, frames, f, sr, v_bow, f_bow) ==
    IF t = frames THEN [s |-> g, out |-> out]
    ELSE LET next == FDTDStep(g, t, f, sr, v_bow, f_bow)
         IN FDTDLoop(next, Max(out, Magnitude(next.u[Len(next.u) - 1]) * 10),
                     t + 1, frames, f, sr, v_bow, f_bow)

\* FDTDSource.generate
FDTDBlock(g, frames, f, sr, v_bow, f_bow) ==
    FDTDLoop(g, 0, 0, frames, f, sr, v_bow, f_bow)

\* generate() of the source of kind `kind` in state s.
GenerateBlock(kind, s, frames, f, sr, v_bow, f_bow) ==
    IF kind = "sawtooth" THEN SawtoothBlock(s, frames, f, sr, v_bow, f_bow)
    ELSE IF kind = "waveguide" THEN WaveguideBlock(s, frames, f, sr, v_bow, f_bow)
    ELSE FDTDBlock(s, frames, f, sr, v_bow, f_bow)

\* The largest magnitude among the values a source carries between calls.
Level(kind, s) ==
    IF kind = "sawtooth" THEN Max(Magnitude(s.dc_x_prev), Magnitude(s.dc_y_prev))
    ELSE IF kind = "waveguide"
    THEN Max(PeakIn(s.upper, 0, WaveguideSize - 1),
             PeakIn(s.lower, 0, WaveguideSize - 1))
    ELSE Max(PeakIn(s.u, 1, Len(s.u)), PeakIn(s.u_prev, 1, Len(s.u_prev)))

\* Frequencies held constant over a run: for the string grid 50 Hz keeps r2
\* below 1 and 196 Hz is clamped; for the waveguide 2500 Hz gives L = 8,
\* raised to 10.
StabilityFreqs(kind) == IF kind = "waveguide" THEN {196, 2500} ELSE {50, 196}

\* The bow force of a call made with the bow pressed.
PressedForce == 50

\* The source object of kind `kind` as its constructor leaves it.
NewSource(kind) ==
    IF kind = "sawtooth" THEN NewSawtooth
    ELSE IF kind = "waveguide" THEN NewWaveguide ELSE NewGrid

\* The states a source is in when the bow is lifted: as constructed, or
\* after one block generated at frequency f with the bow pressed.
LiftedStates(kind, f) ==
    {NewSource(kind),
     GenerateBlock(kind, NewSource(kind), ProbeFrames, f, SampleRate, InitBow,
                   PressedForce).s}

\* A source with the bow lifted, to be called at frequency f.  `level` is the
\* largest magnitude it carried when the bow was lifted, `out` the largest
\* magnitude of the block its last generate() returned.
StabilityInit ==
    /\ Construct
    /\ raw_sampled_spl = "none"
    /\ probe = NoProbe
    /\ physics = NewPhysics
    /\ window = NewWindow
    /\ spectrum = NoSpectrum
    /\ \E k \in SourceNames :
         \E f \in StabilityFreqs(k) :
            \E s \in LiftedStates(k, f) :
               source_probe = [kind |-> k, f |-> f, called |-> FALSE,
                               level |-> Level(k, s), out |-> 0, s |-> s]

\* One generate(ProbeFrames, f, sample_rate, bow_velocity, 0) call on the
\* source under test.
StabilityGenerate ==
    /\ Alive
    /\ LET block == GenerateBlock(source_probe.kind, source_probe.s, ProbeFrames,
                                  source_probe.f, SampleRate, InitBow, 0)
       IN source_probe' = [source_probe EXCEPT !.s = block.s,
                                               !.out = block.out,
                                               !.called = TRUE]
    /\ UNCHANGED <<is_running, stream, streams, lock, frequency, excitation_type,
                   bow_velocity, bow_force, response_mode, noise_level,
                   smoothing_level, modes, sample_count, audio_queue, cb, ui,
                   outdata, escaped, closed_touched, crashed, noop_starts, chunk,
                   dropped, delivered, setter_calls, raw_sampled_spl, probe,
                   excitation_sources, physics, window, spectrum>>

StabilityNext == StabilityGenerate

StabilitySpec == StabilityInit /\ [][StabilityNext]_vars

\* ------------------------------------- the waveguide's delay length alone
\* Frequencies in tenths of a Hz (0.1 Hz to 30 kHz, with the values around
\* both clamps at 44100 Hz) and sample rates handed to generate().
DelayFreqs ==
    {1, 5, 10, 107, 108, 109, 1960, 4400, 6600, 22050, 22051, 24500, 25000,
     220500, 300000}
DelayRates == {8000, 22050, 44100, 48000, 96000}

\* The indices of self.upper and self.lower one pass of the loop body reads
\* or writes: element 0, the slices [0:L-1] and [1:L], element L-1, and
\* bow_pos = L // 4.
IndicesTouched(L) == (0 .. L - 1) \cup {L \div 4}

\* No length has been computed for the frequency f at the rate sr.
Unmeasured(f, sr) ==
    [kind |-> "waveguide", f |-> f, sample_rate |-> sr, measured |-> FALSE,
     L |-> 0, bow_pos |-> 0, touched |-> {}]

DelayInit ==
    /\ Construct
    /\ probe = NoProbe
    /\ physics = NewPhysics
    /\ window = NewWindow
    /\ spectrum = NoSpectrum
    /\ source_probe \in {Unmeasured(f, sr) : f \in DelayFreqs, sr \in DelayRates}

\* The first two statements of WaveguideSource.generate and the indexing of
\* its loop body, for frequency f / 10 Hz: sample_rate / (2 * frequency) is
\* 10 * sample_rate / (2 * f).
DelayMeasure ==
    /\ Alive
    /\ ~source_probe.measured
    /\ LET L == DelayLength(source_probe.f, 10 * source_probe.sample_rate,
                            WaveguideSize)
       IN source_probe' = [source_probe EXCEPT !.measured = TRUE,
                                               !.L = L,
                                               !.bow_pos = L \div 4,
                                               !.touched = IndicesTouched(L)]
    /\ UNCHANGED <<is_running, stream, streams, lock, frequency, excitation_type,
                   bow_velocity, bow_force, response_mode, noise_level,
                   smoothing_level, modes, sample_count, audio_queue, cb, ui,
                   outdata, escaped, closed_touched, crashed, noop_starts, chunk,
                   dropped, delivered, setter_calls, raw_sampled_spl, probe,
                   excitation_sources, physics, window, spectrum>>

DelayNext == DelayMeasure

DelaySpec == DelayInit /\ [][DelayNext]_vars

\* ------------------------------------------------- the response curves
\* Frequencies are counted in units of 100 Hz, amplitudes in tenths, dampings
\* in tenths and levels (noise, smoothing) in hundredths.  The complex
\* response is kept in thousandths, a magnitude times the radiation roll-off
\* in millionths, decibels in thousandths of a dB.

\* 20 * np.log10(np.maximum(magnitude, 1e-9)): a magnitude of 0 gives -180 dB.
DbOf(x) ==
    IF x = 0 THEN DbValue(-180000)
    ELSE [form |-> "20log10", x |-> x, add |-> 0, w |-> 0]

\* savgol_filter(curve, window, 3), run when int(level * 100) > 3; an even
\* window is made odd.
Window(level) == IF level % 2 = 0 THEN level + 1 ELSE level
Smoothed(v, level) == IF level > 3 THEN [v EXCEPT !.w = Window(level)] ELSE v

RECURSIVE ISqrtFrom(_, _)
ISqrtFrom(n, x) ==
    LET y == (x + n \div x) \div 2
    IN IF y >= x THEN x ELSE ISqrtFrom(n, y)

\* np.abs of a complex number, from the sum of the squares of its parts.
ISqrt(n) == IF n = 0 THEN 0 ELSE ISqrtFrom(n, n)
Abs(z) == ISqrt(z.re * z.re + z.im * z.im)

\* floor_mag = 0.05 * (f / 200)^2 / (1 + (f / 200)^2 + 1e-6), in thousandths
\* (the 1e-6 is below the resolution).
FloorMag(F) == (50 * F * F) \div (4 + F * F)

\* hp_roll = (f / 400)^3 / (1 + (f / 400)^3), in thousandths.
HpRoll(F) == (1000 * F * F * F) \div (64 + F * F * F)

\* calculate_spectrum: amp * f0^2 / ((f0^2 - f^2) + 1j * gamma * f) with
\* gamma = damping * f0.
Lorentzian(m, F) ==
    LET A == m.freq * m.freq - F * F
        den == 100 * A * A + m.damping * m.damping * m.freq * m.freq * F * F
    IN [re |-> (m.amp * m.freq * m.freq * A * 10000) \div den,
        im |-> 0 - (m.amp * m.freq * m.freq * m.freq * m.damping * F * 1000)
                       \div den]

\* _audio_callback: amp / (1 + 1j * (freqs - fc) / (bw / 2 + 1e-6)) with
\* bw = damp * fc.
Resonator(m, F) ==
    LET N == 20 * (F - m.freq)
        D == m.damping * m.freq
    IN [re |-> (100 * m.amp * D * D) \div (D * D + N * N),
        im |-> 0 - (100 * m.amp * D * N) \div (D * D + N * N)]

\* The term one mode adds to the response, in the predictor's curve
\* ("lorentzian") and in the callback ("resonator").
Term(kind, m, F) == IF kind = "lorentzian" THEN Lorentzian(m, F) ELSE Resonator(m, F)

\* A sum that holds a unit contribution whatever the list.
UnitContribution(kind, ms, F) == [re |-> 1000, im |-> 0]

\* `response += term` over the modes of the list, from zero.
RECURSIVE ModalSum(_, _, _)
ModalSum(kind, ms, F) ==
    IF ms = <<>> THEN [re |-> 0, im |-> 0]
    ELSE LET rest == ModalSum(kind, Tail(ms), F)
             t == Term(kind, Head(ms), F)
         IN [re |-> rest.re + t.re, im |-> rest.im + t.im]

\* 10 ** (db / 20) in millionths, for a level that is a multiple of 20 dB.
RECURSIVE Antilog(_)
Antilog(db) ==
    IF db = 0 THEN 1000000
    ELSE IF db > 0 THEN 10 * Antilog(db - 20000)
    ELSE Antilog(db + 20000) \div 10

\* The reference file holds one level (dB) at every sample: interpolation and
\* the Savitzky-Golay filter give that level back.  physics.py stores
\* data + 50 in dB, synthesizer.py stores 10 ** ((data + 50) / 20).
ReferenceData == -50
PhysicsReference == (ReferenceData + 50) * 1000
EngineReference == Antilog((ReferenceData + 50) * 1000)

\* np.random.rand(), in thousandths.
RandDraws == {0, 999}

\* A sampled response that goes on without a reference as if it held the
\* level 0 dB.
SampledUnguarded(model, F) ==
    Smoothed(DbValue(PhysicsReference), model.smoothing_level)

\* AcousticModel.get_sampled_response at frequency F: -60 dB without a
\* reference; else the reference (smoothed first), interpolated, rolled off
\* below 100 Hz by (f / 100)^3 and above 8200 Hz by (8200 / f)^4, not below
\* 1e-6.
GetSampledResponse(model, F) ==
    IF model.sampled_spl = "none" THEN DbValue(-60000)
    ELSE IF F < 1
         THEN LET mag == Antilog(PhysicsReference) * F * F * F
              IN Smoothed(IF mag < 1 THEN DbValue(-120000) ELSE DbOf(mag),
                          model.smoothing_level)
    ELSE IF F > 82
         THEN LET att == (82 * 82 * 1000) \div (F * F)
                  mag == ((Antilog(PhysicsReference) \div 1000) * (att * att)) \div 1000
              IN Smoothed(IF mag < 1 THEN DbValue(-120000) ELSE DbOf(mag),
                          model.smoothing_level)
    ELSE Smoothed(DbValue(PhysicsReference), model.smoothing_level)

\* A curve that takes a random draw into its value in every mode.
NoisyInEveryMode(model, ms, mode, noise, F, r) ==
    LET base == IF mode = "SAMPLED" THEN GetSampledResponse(model, F)
                ELSE DbValue(20000 - (1000 * F * F) \div 6400)
    IN [base EXCEPT !.add = @ + (r - 500) * 20]

\* AcousticModel.calculate_spectrum(modes, mode=mode, noise_level=noise) at
\* frequency F, with `model` the AcousticModel and r the random draw.
CalculateSpectrum(model, ms, mode, noise, F, r) ==
    IF mode = "FLAT" THEN DbValue(20000 - (1000 * F * F) \div 6400)
    ELSE IF mode = "SAMPLED" THEN GetSampledResponse(model, F)
    ELSE LET sum == ModalSum("lorentzian", ms, F)
             response == [re |-> FloorMag(F) + sum.re, im |-> sum.im]
             spl_db == DbOf(Abs(response) * HpRoll(F))
             noisy == IF mode = "NOISY" /\ noise > 0
                      THEN [spl_db EXCEPT !.add = @ + ((r - 500) * noise * 20) \div 100]
                      ELSE spl_db
         IN Smoothed(noisy, model.smoothing_level)

\* The response the callback builds, by its magnitude at frequency F:
\* 0.2 - 0.1 * (f / 10000)^2 for FLAT; the interpolated reference, rolled off
\* below 100 Hz, times 0.1 for SAMPLED with a reference; else the floor plus
\* one resonator per mode not above 20 kHz, times the radiation roll-off and,
\* for NOISY, times 1 + noise.
EngineResponse(sampled, ms, mode_choice, noise_val, smooth_val, F, r) ==
    IF ResponseBranch(mode_choice, sampled) = "FLAT"
    THEN Linear(200000 - (100000 \div 10000) * F * F)
    ELSE IF ResponseBranch(mode_choice, sampled) = "SAMPLED"
    THEN LET mag == IF F < 1 THEN EngineReference * F * F * F ELSE EngineReference
         IN Smoothed(Linear(mag \div 10), smooth_val)
    ELSE LET audible == SelectSeq(ms, LAMBDA m : ~(m.freq > 200))
             sum == ModalSum("resonator", audible, F)
             response == [re |-> FloorMag(F) + sum.re, im |-> sum.im]
             gain == IF mode_choice = "NOISY" /\ noise_val > 0
                     THEN 1000 + ((r - 500) * noise_val * 2) \div 100
                     ELSE 1000
             mag == (((Abs(response) * gain) \div 100) * HpRoll(F)) \div 10
         IN Smoothed(Linear(mag), smooth_val)

\* ------------------------------------- the two response curves side by side
\* Above this frequency (units of 100 Hz) the curves are computed for the
\* empty mode list only.
MaxModalFreq == 10

\* Mode lists handed to both computations: one body-like mode, or two.
SpectrumModes ==
    {[freq |-> 3, amp |-> 10, damping |-> 1], [freq |-> 6, amp |-> 5, damping |-> 5]}
SpectrumLists ==
    {<<>>} \cup {<<m>> : m \in SpectrumModes}
           \cup {<<m, n>> : m \in SpectrumModes, n \in SpectrumModes}
SpectrumFreqs == {0, 1, 3, 6, 83, 100}
SpectrumLevels == {0, 3, 50}

SpectrumInit ==
    /\ Construct
    /\ probe = NoProbe
    /\ source_probe = NoSource
    /\ physics = NewPhysics
    /\ window = NewWindow
    /\ spectrum \in {[NoSpectrum EXCEPT !.modes = ms, !.mode = mode, !.F = F,
                                        !.smoothing = s, !.noise = n] :
                        ms \in SpectrumLists,
                        mode \in {"FLAT", "SAMPLED", "MODEL", "NOISY"},
                        F \in SpectrumFreqs, s \in SpectrumLevels,
                        n \in SpectrumLevels}
    /\ spectrum.F <= MaxModalFreq \/ spectrum.modes = <<>>

\* The callback's response for the probe, with the engine's reference data.
SpectrumEngine(r) ==
    /\ Alive
    /\ spectrum.engine = NotComputed
    /\ spectrum' = [spectrum EXCEPT !.engine =
                       EngineResponse(raw_sampled_spl, spectrum.modes, spectrum.mode,
                                      spectrum.noise, spectrum.smoothing,
                                      spectrum.F, r)]
    /\ UNCHANGED <<is_running, stream, streams, lock, frequency, excitation_type,
                   bow_velocity, bow_force, response_mode, noise_level,
                   smoothing_level, modes, sample_count, audio_queue, cb, ui,
                   outdata, escaped, closed_touched, crashed, noop_starts, chunk,
                   dropped, delivered, setter_calls, raw_sampled_spl, probe,
                   excitation_sources, source_probe, physics, window>>

\* calculate_spectrum for the probe, after set_smoothing_level(level).
SpectrumPhysics(r) ==
    /\ Alive
    /\ spectrum.physics = NotComputed
    /\ physics' = [physics EXCEPT !.smoothing_level = spectrum.smoothing]
    /\ spectrum' = [spectrum EXCEPT !.physics =
                       CalculateSpectrum(physics', spectrum.modes, spectrum.mode,
                                         spectrum.noise, spectrum.F, r)]
    /\ UNCHANGED <<is_running, stream, streams, lock, frequency, excitation_type,
                   bow_velocity, bow_force, response_mode, noise_level,
                   smoothing_level, modes, sample_count, audio_queue, cb, ui,
                   outdata, escaped, closed_touched, crashed, noop_starts, chunk,
                   dropped, delivered, setter_calls, raw_sampled_spl, probe,
                   excitation_sources, source_probe, window>>

SpectrumNext ==
    \/ \E r \in RandDraws : SpectrumEngine(r)
    \/ \E r \in RandDraws : SpectrumPhysics(r)

SpectrumSpec == SpectrumInit /\ [][SpectrumNext]_vars

\* ------------------------------------- the modal predictor and the window
\* The static methods class GeometryExtractor defines.
GeometryExtractorMethods == {"calculate_c_bout_width"}

\* The modes predict() appends: 3 body modes, 7 mixing modes, 8 bridge-hill
\* modes and 3 high-frequency modes, named here by their position.
ZoneModeCount == 3 + 7 + 8 + 3
ZoneModes == [i \in 1 .. ZoneModeCount |-> i]

\* AcousticModel._calculate_physical_shifts: "none" if it returns, else the
\* exception it raises.  h_pix and s_fact are computed from the non-empty
\* outline; the next statement looks up GeometryExtractor.calculate_area, and
\* with an arch pair set the depth looks up GeometryExtractor.get_max_depth.
CalculatePhysicalShifts(model) ==
    IF "calculate_area" \notin GeometryExtractorMethods THEN "AttributeError"
    ELSE IF model.arching_data.set /\ "get_max_depth" \notin GeometryExtractorMethods
    THEN "AttributeError"
    ELSE "none"

\* m_shift of _calculate_physical_shifts, in thousandths:
\* 0.6 * sqrt(top_modulus / 12 * 400 / max(1, top_density))
\*   + 0.4 * sqrt(back_modulus / 10 * 600 / max(1, back_density)).
\* The statement comes after the area and depth look-ups.
AtLeastOne(d) == IF d < 1 THEN 1 ELSE d
MaterialShift(quad) ==
    LET f_top == ISqrt((quad[2] * 400 * 10000) \div (12 * AtLeastOne(quad[1])))
        f_back == ISqrt((quad[4] * 600 * 10000) \div (10 * AtLeastOne(quad[3])))
    IN 6 * f_top + 4 * f_back

\* AcousticModel.predict() on the stored geometry_data.
Predict(model) ==
    IF model.geometry_data = <<>> THEN Returned(<<>>)
    ELSE IF CalculatePhysicalShifts(model) # "none"
    THEN Raised(CalculatePhysicalShifts(model))
    ELSE Returned(ZoneModes)

\* MainWindow.update_plate_map reads self.canvas.points[0] and [14] first.
UpdatePlateMap(canvas_points) ==
    IF Len(canvas_points) < OutlinePoints THEN "IndexError" ELSE "none"

\* self.synthesizer.update_modes(modes) as the handler calls it.
PublishedModes(old, new) == StoredModes(old, new)

\* The curves on_geometry_changed hands to the plot: the model curve (MODEL
\* stands in when SAMPLED is selected) and the sampled curve.
PlottedCurves(model, ms, mode, noise, r) ==
    LET calc_mode == IF mode # "SAMPLED" THEN mode ELSE "MODEL"
    IN [model |-> [F \in PlotFreqs |->
                      CalculateSpectrum(model, ms, calc_mode, noise, F, r)],
        sampled |-> [F \in PlotFreqs |->
                        CalculateSpectrum(model, ms, "SAMPLED", noise, F, r)]]

\* MainWindow.on_geometry_changed(points) on the model `model`, with `shown`
\* the window before it: update_geometry, predict, update_modes, the two
\* spectra and the plot, update_plate_map.  An exception ends the handler
\* where it is raised.  `old` is the list the synthesizer holds.
OnGeometryChanged(model, points, old, shown, r) ==
    LET stored == [model EXCEPT !.geometry_data = points]
        result == Predict(stored)
    IN IF result.raised # "none"
       THEN [physics |-> stored, modes |-> old, fault |-> result.raised,
             prediction |-> result, plot |-> shown.plot]
       ELSE [physics |-> stored, modes |-> PublishedModes(old, result.modes),
             fault |-> UpdatePlateMap(shown.outline), prediction |-> result,
             plot |-> PlottedCurves(stored, result.modes, response_mode,
                                    noise_level, r)]

\* The UI thread can run a handler of the main window: update_modes takes
\* the lock.
WindowReady == UiReady /\ CanAcquire(lock)

\* An exception that leaves a slot goes to sys.excepthook: PyQt's own hook
\* ends the process (die), a replaced hook reports it and the event loop goes
\* on.
\* The user drags a control point of the outline: canvas.update_geometry()
\* returns early with fewer than fifteen points, else emits geometryChanged,
\* which runs on_geometry_changed.
DragOutline(points, die, r) ==
    /\ WindowReady
    /\ Len(points) = Len(window.outline)
    /\ points # window.outline
    /\ IF Len(points) < OutlinePoints
       THEN /\ window' = [window EXCEPT !.outline = points]
            /\ UNCHANGED <<physics, modes, crashed>>
       ELSE LET moved == [window EXCEPT !.outline = points]
                h == OnGeometryChanged(physics, points, modes, moved, r)
            IN /\ physics' = h.physics
               /\ modes' = h.modes
               /\ window' = [moved EXCEPT !.handled = "outline",
                                          !.fault = h.fault,
                                          !.prediction = h.prediction,
                                          !.plot = h.plot]
               /\ crashed' = (h.fault # "none" /\ die)
    /\ UNCHANGED <<is_running, stream, streams, lock, frequency, excitation_type,
                   bow_velocity, bow_force, response_mode, noise_level,
                   smoothing_level, sample_count, audio_queue, cb, ui, outdata,
                   escaped, closed_touched, noop_starts, chunk, dropped,
                   delivered, setter_calls, raw_sampled_spl, probe,
                   excitation_sources, source_probe, spectrum>>

\* The user drags a point of an arch profile: MainWindow.on_arching_changed
\* stores the pair, runs on_geometry_changed on the canvas points, and then
\* update_plate_map once more.
DragArching(t_pts, b_pts, die, r) ==
    /\ WindowReady
    /\ <<t_pts, b_pts>> # <<window.top, window.back>>
    /\ LET arched == [physics EXCEPT !.arching_data = ArchingPair(t_pts, b_pts)]
           h == OnGeometryChanged(arched, window.outline, modes, window, r)
       IN /\ physics' = h.physics
          /\ modes' = h.modes
          /\ window' = [window EXCEPT !.top = t_pts, !.back = b_pts,
                                      !.handled = "arching",
                                      !.fault = h.fault,
                                      !.prediction = h.prediction,
                                      !.plot = h.plot]
          /\ crashed' = (h.fault # "none" /\ die)
    /\ UNCHANGED <<is_running, stream, streams, lock, frequency, excitation_type,
                   bow_velocity, bow_force, response_mode, noise_level,
                   smoothing_level, sample_count, audio_queue, cb, ui, outdata,
                   escaped, closed_touched, noop_starts, chunk, dropped,
                   delivered, setter_calls, raw_sampled_spl, probe,
                   excitation_sources, source_probe, spectrum>>

\* The user moves a material slider: MainWindow.on_material_changed stores the
\* quadruple and calls canvas.update_geometry(), which emits only with
\* fifteen points.
MaterialChange(quad, die, r) ==
    /\ WindowReady
    /\ quad # window.material
    /\ LET stored == [physics EXCEPT !.material = quad]
       IN IF Len(window.outline) < OutlinePoints
          THEN /\ physics' = stored
               /\ window' = [window EXCEPT !.material = quad,
                                           !.handled = "material",
                                           !.fault = "none",
                                           !.prediction = NoPrediction]
               /\ UNCHANGED <<modes, crashed>>
          ELSE LET h == OnGeometryChanged(stored, window.outline, modes,
                                          window, r)
               IN /\ physics' = h.physics
                  /\ modes' = h.modes
                  /\ window' = [window EXCEPT !.material = quad,
                                              !.handled = "material",
                                              !.fault = h.fault,
                                              !.prediction = h.prediction,
                                              !.plot = h.plot]
                  /\ crashed' = (h.fault # "none" /\ die)
    /\ UNCHANGED <<is_running, stream, streams, lock, frequency, excitation_type,
                   bow_velocity, bow_force, response_mode, noise_level,
                   smoothing_level, sample_count, audio_queue, cb, ui, outdata,
                   escaped, closed_touched, noop_starts, chunk, dropped,
                   delivered, setter_calls, raw_sampled_spl, probe,
                   excitation_sources, source_probe, spectrum>>

\* The window as wired, before a handler has run, with the templates the two
\* canvases loaded.
WindowInit ==
    /\ Construct
    /\ probe = NoProbe
    /\ source_probe = NoSource
    /\ spectrum = NoSpectrum
    /\ physics = NewPhysics
    /\ window \in {WindowWith(o, t, b) :
                      o \in OutlineInputs, t \in ArchInputs, b \in ArchInputs}

WindowNext ==
    \/ \E o \in OutlineInputs, die \in BOOLEAN, r \in RandDraws :
           DragOutline(o, die, r)
    \/ \E t \in ArchInputs, b \in ArchInputs, die \in BOOLEAN, r \in RandDraws :
           DragArching(t, b, die, r)
    \/ \E q \in MaterialInputs, die \in BOOLEAN, r \in RandDraws :
           MaterialChange(q, die, r)

WindowSpec == WindowInit /\ [][WindowNext]_vars


\* ============================================================ the claims

\* C1: start() on a stopped engine, with a backend that opens and starts the
\* stream, opens exactly one stream (the one the engine then references,
\* active) and sets is_running; start() on a running engine changes neither
\* the stream reference, nor any stream, nor is_running.
StartContract ==
    [][\A dev \in Backend :
         Start(dev) =>
           /\ (~is_running /\ dev = "ok") =>
                 /\ Cardinality(Created') = Cardinality(Created) + 1
                 /\ Open' = Open \cup {stream'}
                 /\ stream' \notin Created
                 /\ streams'[stream'] = "active"
                 /\ \A s \in Created : streams'[s] = streams[s]
                 /\ is_running'
           /\ is_running => UNCHANGED <<stream, streams, is_running>>]_vars

\* C1 witness: the engine runs on one open stream and a start() has been
\* called on it while it was running.
StartContractWitness ==
    /\ is_running
    /\ noop_starts
    /\ stream # 0
    /\ streams[stream] = "active"
    /\ Open = {stream}

\* C2 (as claimed): every stop() leaves the engine stopped, without a fault
\* and without issuing stop()/close() on a stream that is already closed.
StopSafeFromAnyState ==
    [][(\E die \in BOOLEAN : Stop(die)) =>
          /\ ~is_running'
          /\ ~crashed'
          /\ ~closed_touched']_vars

\* C3 (as claimed): no exception of the callback reaches the backend, and no
\* stream is ended by one.
CallbackFaultContained ==
    /\ escaped = "none"
    /\ \A s \in StreamIds : streams[s] # "aborted"

\* A frequency set_frequency should accept: a scalar must be positive.
InRange(freq) == freq.kind = "scalar" => freq.f > 0

\* C4 (as claimed): set_frequency called with an out-of-range value leaves
\* the shared frequency as it was.
SetterRejectsOutOfRange ==
    [][\A freq \in FreqInputs :
         (SetFrequency(freq) /\ ~InRange(freq)) => frequency' = frequency]_vars

\* C5: the queue never holds more than QueueMax blocks; a callback that
\* publishes into a full queue leaves the queue as it is and returns, and its
\* block is the one that was written to the output device.
QueueNeverOverfull ==
    /\ [](Len(audio_queue) <= QueueMax)
    /\ [][(CbPublish /\ Len(audio_queue) >= QueueMax) =>
             /\ audio_queue' = audio_queue
             /\ cb'.pc = "idle"
             /\ dropped' = cb.blk
             /\ outdata' = cb.blk]_vars

\* C5 witness: the queue is full, the callback has dropped a block and
\* returned, and that block is the last one written to the device.
QueueFullDropWitness ==
    /\ Len(audio_queue) = QueueMax
    /\ dropped # 0
    /\ outdata = dropped
    /\ \A i \in DOMAIN audio_queue : audio_queue[i] # dropped
    /\ cb.pc = "idle"

\* C6: get_audio_chunk can always be called by the idle UI thread and takes
\* one step; on an empty queue it returns None; otherwise it returns the
\* oldest block of the queue and removes it, so the blocks come out in the
\* order of publication (increasing ids), none of them twice.
ChunksInFifoOrder ==
    /\ [](UiReady => ENABLED GetAudioChunk)
    /\ [](\A i \in DOMAIN audio_queue :
             /\ audio_queue[i] > delivered
             /\ \A j \in DOMAIN audio_queue : i < j => audio_queue[i] < audio_queue[j])
    /\ [][GetAudioChunk =>
             IF audio_queue = <<>>
             THEN chunk'.block = 0 /\ audio_queue' = <<>>
             ELSE /\ chunk'.block > delivered
                  /\ \A i \in DOMAIN audio_queue : chunk'.block <= audio_queue[i]
                  /\ Len(audio_queue') = Len(audio_queue) - 1
                  /\ \A i \in DOMAIN audio_queue' : audio_queue'[i] > chunk'.block]_vars

\* C6 witness: a second block has been returned after the first while newer
\* blocks wait in the queue.
FifoWitness ==
    /\ chunk.called
    /\ chunk.block = 2
    /\ delivered = 2
    /\ Len(audio_queue) >= 2

\* The (velocity, force) pairs one set_bow_params call, or the constructor,
\* has written.
WrittenBowPairs == BowInputs \cup {<<InitBow, InitBow>>}

LockOnlyForCopy == lock = "audio" => cb.pc = "copy"

\* The lists update_modes was or can be called with, and the initial one.
WholeLists == ModeInputs \cup {<<>>}

\* C9: the engine's list, the callback's copy and the modes the filter loops
\* over are each one whole list, never elements of two.
ModesNeverMixed ==
    /\ modes \in WholeLists
    /\ cb.current_modes \in WholeLists
    /\ cb.used_modes \in WholeLists

\* C9 witness: update_modes has replaced the list while a block copied before
\* it is in the modal filter, which looped over the list it copied.
ModesWitness ==
    /\ cb.pc = "publish"
    /\ ResponseBranch(cb.mode_choice, raw_sampled_spl) = "MODAL"
    /\ cb.used_modes = <<>>
    /\ modes = ListA

\* Sum of the durations of the notes before note i.
RECURSIVE StartOf(_, _)
StartOf(notes, i) == IF i = 1 THEN 0 ELSE StartOf(notes, i - 1) + notes[i - 1][2]

\* The melody of the scenario: [(440, 0.5), (880, 0.5)].
ScenarioMelody == << <<440, 2 * Quarter>>, <<880, 2 * Quarter>> >>

\* C10: for a melody with positive durations the resolved frequency is the
\* one of the note whose interval [start, start + duration) holds
\* sample_count mod the total duration; for [(440, 0.5), (880, 0.5)] it is 440
\* at 0.25 s, 880 at 0.75 s and 440 at 1.0 s.
MelodyNoteActive ==
    probe.done =>
      LET m == probe.melody
          pos == probe.n % StartOf(m, Len(m) + 1)
      IN /\ \E i \in 1 .. Len(m) :
               /\ StartOf(m, i) <= pos
               /\ pos < StartOf(m, i) + m[i][2]
               /\ probe.f = m[i][1]
         /\ m = ScenarioMelody =>
               /\ probe.n = Quarter => probe.f = 440
               /\ probe.n = 3 * Quarter => probe.f = 880
               /\ probe.n = 4 * Quarter => probe.f = 440

\* C10 witness: the scenario melody at 0.75 s, where the second note sounds.
MelodyWitness ==
    /\ probe.done
    /\ probe.melody = ScenarioMelody
    /\ probe.n = 3 * Quarter
    /\ probe.f = 880

\* C11: switching the excitation type never resets a source: across every
\* step, set_excitation_type and callback steps included, each of the three
\* sources is the object built at construction and the state it has
\* integrated is not thrown away.
SourcesNeverReset ==
    [][\A s \in SourceNames :
          /\ excitation_sources'[s].instance = InstanceOf(s)
          /\ excitation_sources'[s].blocks >= excitation_sources[s].blocks]_vars

\* The type was switched mid-stream after the sawtooth had generated, and the
\* waveguide has generated since.
SourcesWitness ==
    /\ excitation_type = "waveguide"
    /\ excitation_sources["sawtooth"].blocks > 0
    /\ excitation_sources["waveguide"].blocks > 0

\* C12: a source that is not the selected one keeps integrating: every block
\* the callback generates advances the state of the two deselected sources
\* as well.
DeselectedSourcesAdvance ==
    [][(cb.pc = "generate" /\ cb'.pc = "filter") =>
          \A s \in SourceNames \ {SelectedSource(cb.ext_type)} :
              excitation_sources'[s].blocks = excitation_sources[s].blocks + 1]_vars

\* C13: at constant frequency the phase of the periodic component at the
\* first sample of a generate call is one increment after the phase at the
\* last sample of the previous call, for every source.
PhaseContinuous ==
    [][(source_probe.calls > 0 /\ source_probe'.f = source_probe.f) =>
          source_probe'.first = (source_probe.last + source_probe.f) % SampleRate]_vars

\* C19: when the reference data is missing and the response mode is SAMPLED,
\* the callback filters the block with a flat low-level response and not with
\* the modal response built from the mode list.
MissingReferenceFiltersFlat ==
    (cb.pc = "publish" /\ cb.mode_choice = "SAMPLED" /\ raw_sampled_spl = "none")
        => cb.response # "MODAL"

\* The model the predictor would hold if it had taken in what the canvases
\* and the sliders show now.
CurrentInputs ==
    [physics EXCEPT !.geometry_data = window.outline,
                    !.arching_data = ArchingPair(window.top, window.back),
                    !.material = window.material]

\* C14: once the main window has handled an outline, arching or material
\* change, the mode list the synthesizer holds is the prediction computed
\* from the current outline, arch profiles and material together.
PublishedIsCurrentPrediction ==
    window.handled # "none" =>
        /\ Predict(CurrentInputs).raised = "none"
        /\ modes = Predict(CurrentInputs).modes

\* C15: predict() on an empty outline returns the empty list without raising,
\* and the MODEL curve computed from that list is the radiation floor alone,
\* at both ends of the plotted range.
EmptyOutlineGivesFloorOnly ==
    (window.prediction.called /\ physics.geometry_data = <<>>) =>
        /\ window.prediction = Returned(<<>>)
        /\ \A F \in PlotFreqs :
               window.plot.model[F] = DbOf(FloorMag(F) * HpRoll(F))

\* A handler predicted on the empty outline and plotted the curve.
EmptyOutlineWitness ==
    /\ window.handled = "arching"
    /\ physics.geometry_data = <<>>
    /\ window.prediction.called
    /\ window.plot.model[1].form = "20log10"

\* An outline of three points or more, two non-empty arch profiles and a
\* positive material quadruple.
ValidInput(model) ==
    /\ Len(model.geometry_data) >= 3
    /\ model.arching_data.set
    /\ model.arching_data.top # <<>>
    /\ model.arching_data.back # <<>>
    /\ \A i \in 1 .. 4 : model.material[i] > 0

\* C16: on valid input predict() returns a mode list (whose modes then have
\* positive frequency, non-negative amplitude and damping inside (0, 1)).
PredictReturnsPhysicalModes ==
    (window.prediction.called /\ ValidInput(physics)) =>
        /\ window.prediction.raised = "none"
        /\ Len(window.prediction.modes) = ZoneModeCount

\* C17: degenerate geometry is no fault: on an outline of fewer than three
\* points, or with an empty arch profile, predict() returns a mode list to
\* the handler and does not raise.
DegenerateGeometryNoFault ==
    (/\ window.prediction.called
     /\ \/ Len(physics.geometry_data) < 3
        \/ physics.arching_data.set /\ physics.arching_data.top = <<>>
        \/ physics.arching_data.set /\ physics.arching_data.back = <<>>)
        => window.prediction.raised = "none"

\* C18: with the reference missing, the sampled response is -60 dB at every
\* frequency and every smoothing level.
MissingReferenceIsFloor ==
    (/\ spectrum.physics # NotComputed
     /\ spectrum.mode = "SAMPLED"
     /\ physics.sampled_spl = "none") => spectrum.physics = DbValue(-60000)

\* The sampled response was computed without a reference, with a smoothing
\* level that runs the filter, above the reference's range.
MissingReferenceWitness ==
    /\ spectrum.physics # NotComputed
    /\ spectrum.mode = "SAMPLED"
    /\ physics.sampled_spl = "none"
    /\ physics.smoothing_level = 50
    /\ spectrum.F > 82

\* The power of ten a magnitude x (millionths) lies in: floor(log10(x / 1e6)).
RECURSIVE Decade(_)
Decade(x) ==
    IF x >= 10000000 THEN Decade(x \div 10) + 1
    ELSE IF x < 1000000 THEN Decade(x * 10) - 1
    ELSE 0

\* The two values are the same magnitude: equal magnitudes where the curve
\* is 20 * log10 of one, and the same power of ten where it is given in dB.
Agree(engine, curve) ==
    IF curve.form = "20log10" THEN engine.x = curve.x
    ELSE engine.x > 0 /\ Decade(engine.x) = curve.add \div 20000

\* C20: for the same mode list and response mode, the magnitude of the
\* callback's response and the curve of calculate_spectrum agree at every
\* frequency of the curve (stated where neither is smoothed or noisy).
ResponsesAgree ==
    (/\ spectrum.engine # NotComputed
     /\ spectrum.physics # NotComputed
     /\ spectrum.F >= 1
     /\ spectrum.smoothing <= 3
     /\ spectrum.mode = "NOISY" => spectrum.noise = 0)
        => Agree(spectrum.engine, spectrum.physics)

\* C21: calculate_spectrum is deterministic for MODEL, FLAT and SAMPLED: a
\* second call with the same mode list, frequency, mode selector, smoothing
\* level and reference gives the value of the first, whatever the random draw
\* and whatever noise_level is passed.
SpectrumDeterministic ==
    (/\ spectrum.physics # NotComputed
     /\ spectrum.mode \in {"MODEL", "FLAT", "SAMPLED"}) =>
        \A r \in RandDraws, n \in SpectrumLevels :
            CalculateSpectrum(physics, spectrum.modes, spectrum.mode, n,
                              spectrum.F, r) = spectrum.physics

\* The MODEL curve of a two-mode list was computed with a noise level passed
\* and with smoothing.
SpectrumDeterministicWitness ==
    /\ spectrum.physics # NotComputed
    /\ spectrum.mode = "MODEL"
    /\ Len(spectrum.modes) = 2
    /\ spectrum.noise = 50
    /\ spectrum.smoothing = 50
    /\ spectrum.physics.form = "20log10"

\* The quadruple q keeps the densities of p and raises a modulus.
Stiffer(q, p) ==
    /\ q[1] = p[1] /\ q[3] = p[3]
    /\ q[2] >= p[2] /\ q[4] >= p[4]
    /\ q # p

\* C22: with a non-empty outline and the densities held, raising a modulus
\* never lowers a Zone 1 body mode: the prediction the window gets after the
\* change returns the modes, and the material shift that scales the three body
\* frequencies is not below the one before.
StifferNeverLowersBodyModes ==
    [][\A q \in MaterialInputs, die \in BOOLEAN, r \in RandDraws :
          (/\ MaterialChange(q, die, r)
           /\ Len(window.outline) >= OutlinePoints
           /\ Stiffer(q, window.material)) =>
              /\ window'.prediction.called
              /\ window'.prediction.raised = "none"
              /\ Len(window'.prediction.modes) >= 3
              /\ MaterialShift(physics'.material) >= MaterialShift(physics.material)]_vars

\* The DC blocker's bound: an input step of at most 2 (two samples of the
\* averaged sawtooth), summed with the weights 0.995^n.
DcBound == 2 * 1000000 * 200

\* C23: a source called again and again at one frequency with bow force 0
\* stays within a fixed bound, over any number of calls: the delay lines of
\* the waveguide never exceed the level they had when the bow was lifted, the
\* grids of the string (which keep what they held at the lift as displacement
\* and as velocity) stay within four times that level, the
\* oscillator's filter state within DcBound, and the returned block within the
\* same bounds times the source's output gain.
AmplitudeBounded ==
    source_probe.called =>
        LET now == Level(source_probe.kind, source_probe.s)
            headroom == 4
        IN CASE source_probe.kind = "sawtooth" ->
                  /\ now <= DcBound
                  /\ source_probe.out <= (DcBound \div 100000) * InitBow
             [] source_probe.kind = "waveguide" ->
                  /\ now <= source_probe.level
                  /\ source_probe.out <= source_probe.level \div 20
             [] OTHER ->
                  /\ now <= headroom * source_probe.level
                  /\ source_probe.out <= 10 * headroom * source_probe.level

\* A waveguide that was bowed and then called with bow force 0 still carries
\* a wave and returns a block that is not silent.
AmplitudeWitness ==
    /\ source_probe.kind = "waveguide"
    /\ source_probe.called
    /\ source_probe.level > 0
    /\ source_probe.out > 0
    /\ Level("waveguide", source_probe.s) > 0

\* The latest block the callback has handed over so far: the newest one in
\* the queue, or the one it dropped after that.
LatestProduced ==
    IF audio_queue = <<>> THEN dropped
    ELSE IF dropped > audio_queue[Len(audio_queue)] THEN dropped
    ELSE audio_queue[Len(audio_queue)]

\* C24: a chunk get_audio_chunk returns is the most recent block: the latest
\* one the callback has produced at the time of the call.
ChunkIsMostRecent ==
    [][(GetAudioChunk /\ audio_queue # <<>>) =>
           chunk'.block = LatestProduced]_vars

\* C25: for every positive frequency and sample rate the waveguide's delay
\* length lies in 10 .. capacity - 1, the bow position is L // 4, and every
\* index the loop body reads or writes lies inside the two buffers.
DelayLengthClamped ==
    source_probe.measured =>
        /\ 10 <= source_probe.L
        /\ source_probe.L <= WaveguideSize - 1
        /\ source_probe.bow_pos = source_probe.L \div 4
        /\ \A i \in source_probe.touched :
               /\ i \in DOMAIN NewWaveguide.upper
               /\ i \in DOMAIN NewWaveguide.lower

\* A frequency of 0.1 Hz at 44100 Hz, for which sample_rate / (2 * frequency)
\* is 220500: the length is the largest allowed and the loop reaches the
\* cell before the last.
DelayWitness ==
    /\ source_probe.measured
    /\ source_probe.f = 1
    /\ source_probe.sample_rate = 44100
    /\ source_probe.L = WaveguideSize - 1
    /\ (WaveguideSize - 2) \in source_probe.touched

\* C26: at most one output stream is open at any time, whatever the backend
\* answers: every stream object start() has created is the one the engine
\* references or has been closed, and is_running is set only while the
\* referenced stream is started.
AtMostOneStreamOpen ==
    /\ Cardinality(Open) <= 1
    /\ \A s \in Created : s = stream \/ streams[s] = "closed"
    /\ is_running => (stream # 0 /\ streams[stream] = "active")

\* C27: the lock is free whenever no thread is inside a with block, also
\* after an exception raised inside the callback's; it changes hands only
\* through being free (no thread takes it while it is held); a free lock can
\* be taken by any setter and by the callback; and a held lock is always
\* released in the end, so no setter and no callback waits for ever.
LockAlwaysReleased ==
    /\ [](lock = "audio" <=> cb.pc \in {"resolve", "copy"})
    /\ [](lock = "ui" <=> ui.pc = "bow_force")
    /\ [][(lock' # lock /\ lock' # "none") => lock = "none"]_vars
    /\ []((SetterReady) =>
             /\ \A ms \in ModeInputs : ENABLED UpdateModes(ms)
             /\ \A freq \in FreqInputs : ENABLED SetFrequency(freq)
             /\ \A mode \in ResponseInputs : ENABLED SetResponseMode(mode)
             /\ \A level \in LevelInputs :
                    ENABLED SetNoiseLevel(level) /\ ENABLED SetSmoothingLevel(level)
             /\ \A ext \in ExcitationInputs : ENABLED SetExcitationType(ext)
             /\ \A bow \in BowInputs : ENABLED SetBowVelocity(bow[1], bow[2]))
    /\ (lock # "none") ~> (lock = "none")
    /\ (cb.pc # "idle") ~> (cb.pc = "idle")

\* The callback raised inside its with block (an empty melody) and the lock
\* is free.
LockReleasedWitness ==
    /\ escaped = "resolve"
    /\ cb.pc = "idle"
    /\ lock = "none"
    /\ frequency = Melody(<<>>)

\* C28: sample_count starts at 0; it changes only in the callback's step that
\* ends excitation generation, which adds exactly the block's frame count;
\* no setter, no stop() and no start() changes it, so it never decreases
\* and the melody position carries on across a restart and a set_frequency.
SampleCountOnlyAdvances ==
    /\ sample_count = 0
    /\ [][/\ sample_count' # sample_count =>
                /\ cb.pc = "generate"
                /\ cb'.pc = "filter"
          /\ (cb.pc = "generate" /\ cb'.pc = "filter") =>
                sample_count' = sample_count + Frames
          /\ sample_count' >= sample_count]_vars

\* After one block, a set_frequency(melody), a stop and a second start, the
\* callback of the second stream resolved the melody's second note from the
\* count the first stream left, and generation has advanced the count again.
SampleCountWitness ==
    /\ Cardinality(Created) = 2
    /\ frequency = ShortMelody
    /\ cb.pc = "filter"
    /\ cb.f_base = 880
    /\ sample_count = 2 * Frames

\* C29: a block get_audio_chunk() hands out while the engine is running was
\* produced in the running session: after a stop() that left blocks 1 ..
\* CarriedBlocks in the queue, no later session delivers one of them.
DeliveredInSession ==
    [][(GetAudioChunk /\ is_running /\ audio_queue # <<>>) =>
           chunk'.block > CarriedBlocks]_vars

\* C30: whatever value set_frequency has stored (an empty melody, a melody
\* whose durations sum to zero and the scalar 0 included), the callback
\* resolves a fundamental and ends its block: no exception leaves it.
CallbackNeverRaises ==
    /\ escaped = "none"
    /\ \A s \in StreamIds : streams[s] # "aborted"

====
